---- MODULE Spec2Model ----
(***************************************************************************)
(* Model of backend/survey3d.py: the Quality / ProjectedField / Survey     *)
(* records with their toDict / fromDict conversions, and the SurveyManager *)
(* that owns at most one active Survey and writes it to the data folder.   *)
(*                                                                         *)
(* Python objects are records carrying a "class" field; dictionaries are   *)
(* records without it, so toDict is not the identity.  A call's outcome is *)
(* either a returned value ("True", "False", "None") or a raised exception *)
(* (its class name).                                                       *)
(***************************************************************************)
EXTENDS Integers, Sequences, FiniteSets, TLC

VARIABLES survey, config, files, clock, last, written, rt

vars == <<survey, config, files, clock, last, written, rt>>

----------------------------------------------------------------------------
(* Bounds *)

\* the system clock when the manager is constructed, in seconds since
\* 1970-01-01 00:00:00 local time (one second before midnight)
ClockStart == 86399

\* how many seconds the clock advances at most
MaxTicks == 2

\* how many ProjectedFields the caller appends to one survey at most
MaxFields == 1

\* how many files the data folder holds at most
MaxFiles == 2

\* longest qualities list of a ProjectedField in the round-trip inputs
MaxQualities == 1

----------------------------------------------------------------------------
(* Python values *)

None == [class |-> "NoneType"]

\* a test written as `obj is True`, which no Survey instance passes
TruthyIsTrue(obj) == FALSE

\* truth value of an object without __bool__/__len__ (a dataclass instance)
\* and of None
Truthy(obj) == obj # None

\* a list test that lets the empty list through
ListTruthyAlways(list) == TRUE

\* truth value of a list
ListTruthy(list) == Len(list) > 0

Returned(call, arg, value) ==
    [call |-> call, arg |-> arg, outcome |-> "return", value |-> value]

Raised(call, arg, exception) ==
    [call |-> call, arg |-> arg, outcome |-> "raise", value |-> exception]

----------------------------------------------------------------------------
(* datetime.now() and strftime *)

Digits == <<"0", "1", "2", "3", "4", "5", "6", "7", "8", "9">>

\* "%d", "%H", "%M", "%S": zero-padded two-digit decimal
TwoDigits(n) == Digits[(n \div 10) + 1] \o Digits[(n % 10) + 1]

\* now.strftime("%Y-%m-%d"), for instants in January 1970
StrfDate(now) == "1970-01-" \o TwoDigits((now \div 86400) + 1)

\* now.strftime("%H-%M-%S")
StrfTime(now) ==
    LET s == now % 86400
    IN  TwoDigits(s \div 3600) \o "-" \o TwoDigits((s % 3600) \div 60)
            \o "-" \o TwoDigits(s % 60)

----------------------------------------------------------------------------
(* Quality *)

Quality(intensity, naturalness, pain, depth, type) ==
    [class |-> "Quality", intensity |-> intensity,
     naturalness |-> naturalness, pain |-> pain, depth |-> depth,
     type |-> type]

QualityToDict(self) ==
    [intensity |-> self.intensity, naturalness |-> self.naturalness,
     pain |-> self.pain, depth |-> self.depth, type |-> self.type]

\* self.<attr> = dictionary[<key>] for each <<attr, key>> of stmts, in order;
\* a missing key raises KeyError and leaves the earlier assignments in place
RECURSIVE AssignFromDict(_, _, _)
AssignFromDict(self, dictionary, stmts) ==
    IF stmts = <<>> THEN [raised |-> "", self |-> self]
    ELSE LET attr == Head(stmts)[1]
             key  == Head(stmts)[2]
         IN  IF key \notin DOMAIN dictionary
             THEN [raised |-> "KeyError", self |-> self]
             ELSE AssignFromDict([self EXCEPT ![attr] = dictionary[key]],
                                 dictionary, Tail(stmts))

QualityFromDict(self, dictionary) ==
    AssignFromDict(self, dictionary,
        << <<"intensity", "intensity">>, <<"naturalness", "naturalness">>,
           <<"pain", "pain">>, <<"depth", "depth">>, <<"type", "type">> >>)

----------------------------------------------------------------------------
(* ProjectedField *)

ProjectedField(model, name, vertices, hotSpot, qualities) ==
    [class |-> "ProjectedField", model |-> model, name |-> name,
     vertices |-> vertices, hotSpot |-> hotSpot, qualities |-> qualities]

ProjectedFieldToDict(self) ==
    LET qualitiesDict ==
            [i \in 1 .. Len(self.qualities) |->
                QualityToDict(self.qualities[i])]
    IN  [model |-> self.model, name |-> self.name,
         verices |-> self.vertices, hotSpot |-> self.hotSpot,
         qualities |-> qualitiesDict]

\* Quality() with no arguments: the dataclass __init__ has five required
\* parameters, so the call raises TypeError
QualityNoArgs == [raised |-> "TypeError"]

ProjectedFieldFromDict(self, dictionary) ==
    LET r == AssignFromDict(self, dictionary,
                 << <<"model", "model">>, <<"name", "name">>,
                    <<"vertices", "vertices">>, <<"hotSpot", "hotSpot">> >>)
    IN  IF r.raised # "" THEN r
        ELSE LET cleared == [r.self EXCEPT !.qualities = <<>>]
             IN  IF "qualities" \notin DOMAIN dictionary
                 THEN [raised |-> "KeyError", self |-> cleared]
                 ELSE IF dictionary.qualities = <<>>
                 THEN [raised |-> "", self |-> cleared]
                 ELSE [raised |-> QualityNoArgs.raised, self |-> cleared]

----------------------------------------------------------------------------
(* Survey *)

Survey(participant, cfg) ==
    [class |-> "Survey", participant |-> participant, config |-> cfg,
     date |-> "", startTime |-> "", endTime |-> "",
     projectedFields |-> <<>>]

startDateTimeNow(self, now) ==
    [self EXCEPT !.date = StrfDate(now), !.startTime = StrfTime(now)]

endTimeNow(self, now) == [self EXCEPT !.endTime = StrfTime(now)]

SurveyToDict(self) ==
    LET projectedFieldsDict ==
            [i \in 1 .. Len(self.projectedFields) |->
                ProjectedFieldToDict(self.projectedFields[i])]
    IN  [participant |-> self.participant, config |-> self.config,
         date |-> self.date, startTime |-> self.startTime,
         endTime |-> self.endTime, projectedFields |-> projectedFieldsDict]

\* ProjectedField.fromDict(field): called on the class with one positional
\* argument, which binds to self; the parameter dictionary is missing and
\* the call raises TypeError
ProjectedFieldFromDictUnbound == [raised |-> "TypeError"]

SurveyFromDict(self, dictionary) ==
    LET r == AssignFromDict(self, dictionary,
                 << <<"participant", "participant">>, <<"config", "config">>,
                    <<"date", "date">>, <<"startTime", "startTime">>,
                    <<"endTime", "endTime">> >>)
    IN  IF r.raised # "" THEN r
        ELSE LET cleared == [r.self EXCEPT !.projectedFields = <<>>]
             IN  IF "projectedFields" \notin DOMAIN dictionary
                 THEN [raised |-> "KeyError", self |-> cleared]
                 ELSE IF dictionary.projectedFields = <<>>
                 THEN [raised |-> "", self |-> cleared]
                 ELSE [raised |-> ProjectedFieldFromDictUnbound.raised,
                       self |-> cleared]

\* a file name built from the end time instead of the start time
FilenameFromEndTime(self) ==
    self.participant \o "_" \o self.date \o "_" \o self.endTime \o ".json"

\* f"{self.participant}_{self.date}_{self.startTime}.json"
Filename(self) ==
    self.participant \o "_" \o self.date \o "_" \o self.startTime \o ".json"

\* open(os.path.join(path, filename), 'w') followed by json.dump: the file
\* of that name is created or truncated and holds the document
WriteFile(fs, filename, document) ==
    [n \in (DOMAIN fs) \cup {filename} |->
        IF n = filename THEN document ELSE fs[n]]

----------------------------------------------------------------------------
(* SurveyManager *)

\* content of participant_config.json
ParticipantConfig == [p1 |-> [arm |-> "left"], p2 |-> [arm |-> "right"]]

\* arguments the caller passes to newSurvey
Participants == {"p1", "p2", "nobody"}

\* a construction that passes the whole configuration
ConstructSurveyWholeConfig(participant, cfg) == Survey(participant, cfg)

\* Survey(participant, self.config[participant])
ConstructSurvey(participant, cfg) == Survey(participant, cfg[participant])

\* ProjectedFields the caller appends to the active survey
FieldChoices ==
    { ProjectedField("torso", "chest", <<1, 2, 3>>, <<2>>,
                     <<Quality(8, 5, 9, "deep", "sharp")>>),
      ProjectedField("arm", "elbow", <<4>>, <<4>>, <<>>) }

NoRoundTrip == [kind |-> "none"]

Init ==
    /\ survey = None
    /\ config = ParticipantConfig
    /\ files = <<>>
    /\ clock = ClockStart
    /\ last = Returned("__init__", "", "None")
    /\ written = {}
    /\ rt = NoRoundTrip

newSurvey(participant) ==
    /\ IF Truthy(survey)
       THEN /\ last' = Returned("newSurvey", participant, "False")
            /\ UNCHANGED survey
       ELSE IF participant \in DOMAIN config
       THEN /\ survey' = startDateTimeNow(
                             ConstructSurvey(participant, config), clock)
            /\ last' = Returned("newSurvey", participant, "True")
       ELSE /\ last' = Returned("newSurvey", participant, "None")
            /\ UNCHANGED survey
    /\ written' = {}
    /\ UNCHANGED <<config, files, clock, rt>>

\* the data folder has room for the file the call would write
RoomFor(filename) ==
    filename \in DOMAIN files \/ Cardinality(DOMAIN files) < MaxFiles

saveSurvey ==
    /\ survey # None /\ survey.projectedFields # <<>>
            => RoomFor(Filename(survey))
    /\ IF survey = None
       THEN \* None has no attribute endTimeNow
            /\ last' = Raised("saveSurvey", "", "AttributeError")
            /\ written' = {}
            /\ UNCHANGED <<survey, files>>
       ELSE LET stamped == endTimeNow(survey, clock)
            IN  IF ListTruthy(stamped.projectedFields)
                THEN /\ files' = WriteFile(files, Filename(stamped),
                                           SurveyToDict(stamped))
                     /\ written' = {Filename(stamped)}
                     /\ survey' = None
                     /\ last' = Returned("saveSurvey", "", "True")
                ELSE /\ survey' = stamped
                     /\ written' = {}
                     /\ last' = Returned("saveSurvey", "", "False")
                     /\ UNCHANGED files
    /\ UNCHANGED <<config, clock, rt>>

\* the caller appends a ProjectedField to the active survey
appendField(f) ==
    /\ survey # None
    /\ Len(survey.projectedFields) < MaxFields
    /\ survey' = [survey EXCEPT
                    !.projectedFields = Append(survey.projectedFields, f)]
    /\ last' = Returned("append", "", "None")
    /\ written' = {}
    /\ UNCHANGED <<config, files, clock, rt>>

\* the system clock advances by one second
Tick ==
    /\ clock < ClockStart + MaxTicks
    /\ clock' = clock + 1
    /\ last' = Returned("tick", "", "None")
    /\ written' = {}
    /\ UNCHANGED <<survey, config, files, rt>>

Next ==
    \/ \E participant \in Participants : newSurvey(participant)
    \/ saveSurvey
    \/ \E f \in FieldChoices : appendField(f)
    \/ Tick

Spec == Init /\ [][Next]_vars

----------------------------------------------------------------------------
(* Round trips through toDict / fromDict, on bounded inputs *)

Levels == 0 .. 2

RTQualities ==
    { Quality(i, n, p, d, t) :
        i \in Levels, n \in Levels, p \in Levels,
        d \in {"deep", "skin"}, t \in {"sharp", "dull"} }

QualityLists ==
    UNION { [1 .. k -> { Quality(8, 5, 9, "deep", "sharp"),
                         Quality(1, 2, 0, "skin", "dull") }] :
            k \in 0 .. MaxQualities }

RTFields ==
    { ProjectedField("torso", nm, v, <<2>>, qs) :
        nm \in {"chest", "back"}, v \in {<<>>, <<1, 2, 3>>},
        qs \in QualityLists }

FieldLists == UNION { [1 .. k -> FieldChoices] : k \in 0 .. MaxFields }

RTSurveys ==
    { [startDateTimeNow(ConstructSurvey(p, ParticipantConfig), ClockStart)
          EXCEPT !.endTime = e, !.projectedFields = fs] :
        p \in DOMAIN ParticipantConfig, e \in {"", StrfTime(ClockStart)},
        fs \in FieldLists }

\* the instances fromDict is called on
BlankQuality == Quality(0, 0, 0, "", "")
BlankProjectedField == ProjectedField("", "", <<>>, <<>>, <<>>)
BlankSurvey == Survey("", <<>>)

roundTripQuality(x) ==
    /\ rt' = [kind |-> "Quality", x |-> x,
              result |-> QualityFromDict(BlankQuality, QualityToDict(x))]
    /\ UNCHANGED <<survey, config, files, clock, last, written>>

roundTripProjectedField(x) ==
    /\ rt' = [kind |-> "ProjectedField", x |-> x,
              result |-> ProjectedFieldFromDict(BlankProjectedField,
                                                ProjectedFieldToDict(x))]
    /\ UNCHANGED <<survey, config, files, clock, last, written>>

roundTripSurvey(x) ==
    /\ rt' = [kind |-> "Survey", x |-> x,
              result |-> SurveyFromDict(BlankSurvey, SurveyToDict(x))]
    /\ UNCHANGED <<survey, config, files, clock, last, written>>

NextRT ==
    \/ \E x \in RTQualities : roundTripQuality(x)
    \/ \E x \in RTFields : roundTripProjectedField(x)
    \/ \E x \in RTSurveys : roundTripSurvey(x)

SpecRT == Init /\ [][NextRT]_vars

----------------------------------------------------------------------------
(* Properties of the SurveyManager, checked under Spec *)

\* C1: the manager's survey slot holds None or one Survey, and a newSurvey
\* call made while a survey is active returns False, for any participant,
\* and leaves every attribute of the active survey as it was.
NewSurveyWhileActiveRefused ==
    /\ [](survey.class \in {"NoneType", "Survey"})
    /\ [][(survey # None /\ last'.call = "newSurvey")
            => /\ last'.outcome = "return"
               /\ last'.value = "False"
               /\ survey' = survey]_vars

NewSurveyWhileActiveSeen ==
    /\ survey # None
    /\ last.call = "newSurvey"
    /\ last.value = "False"
    /\ last.arg # survey.participant

\* C2: a saveSurvey call on an active survey with at least one
\* ProjectedField returns True, writes exactly one file, named
\* {participant}_{date}_{startTime}.json from the participant, date and
\* start time the survey got at newSurvey (which stay as they were while the
\* survey is active), holding the survey's dictionary, and leaves the
\* manager idle; a newSurvey call for a configured participant made while
\* idle succeeds.
SaveWritesOneFileThenIdle ==
    [][/\ (survey # None /\ survey.projectedFields # <<>>
              /\ last'.call = "saveSurvey")
          => /\ last'.outcome = "return"
             /\ last'.value = "True"
             /\ written' = {survey.participant \o "_" \o survey.date \o "_"
                               \o survey.startTime \o ".json"}
             /\ DOMAIN files' = (DOMAIN files) \cup written'
             /\ \A n \in DOMAIN files :
                    n \notin written' => files'[n] = files[n]
             /\ \A n \in written' :
                    /\ files'[n].participant = survey.participant
                    /\ files'[n].date = survey.date
                    /\ files'[n].startTime = survey.startTime
                    /\ Len(files'[n].projectedFields)
                           = Len(survey.projectedFields)
             /\ survey' = None
       /\ (survey = None /\ last'.call = "newSurvey"
              /\ last'.arg \in DOMAIN config)
          => /\ last'.value = "True"
             /\ survey' # None
             /\ survey'.participant = last'.arg
             /\ survey'.date = StrfDate(clock)
             /\ survey'.startTime = StrfTime(clock)
       /\ (survey # None /\ survey' # None)
          => /\ survey'.participant = survey.participant
             /\ survey'.date = survey.date
             /\ survey'.startTime = survey.startTime]_vars

SavedAfterClockAdvanced ==
    /\ last.call = "saveSurvey"
    /\ last.value = "True"
    /\ survey = None
    /\ \E n \in written :
           /\ n \in DOMAIN files
           /\ files[n].endTime # files[n].startTime

\* C3: a saveSurvey call on an active survey without ProjectedFields returns
\* False, writes no file, and leaves the manager active with the same
\* survey (participant, config, date, startTime, projectedFields); a survey
\* that went through such a failed save and then got a field is saved by the
\* next saveSurvey call.
EmptySaveFailsAndKeepsSurvey ==
    [][/\ (survey # None /\ survey.projectedFields = <<>>
              /\ last'.call = "saveSurvey")
          => /\ last'.outcome = "return"
             /\ last'.value = "False"
             /\ written' = {}
             /\ files' = files
             /\ survey' # None
             /\ survey'.participant = survey.participant
             /\ survey'.config = survey.config
             /\ survey'.date = survey.date
             /\ survey'.startTime = survey.startTime
             /\ survey'.projectedFields = survey.projectedFields
       /\ (survey # None /\ survey.endTime # ""
              /\ survey.projectedFields # <<>> /\ last'.call = "saveSurvey")
          => /\ last'.value = "True"
             /\ survey' = None
             /\ \E n \in written' :
                    /\ n \in DOMAIN files'
                    /\ files'[n].participant = survey.participant
                    /\ files'[n].date = survey.date
                    /\ files'[n].startTime = survey.startTime]_vars

EmptySaveFailed ==
    /\ last.call = "saveSurvey"
    /\ last.value = "False"
    /\ survey # None
    /\ survey.projectedFields = <<>>

\* C4: a newSurvey call made while idle with a participant that is not a
\* key of the configuration does not succeed, creates no survey and leaves
\* the manager idle; the participant of an active survey is always a key of
\* the configuration and the survey's config is that participant's entry.
UnknownParticipantRefused ==
    /\ [](survey # None
            => /\ survey.participant \in DOMAIN config
               /\ survey.config = config[survey.participant])
    /\ [][(survey = None /\ last'.call = "newSurvey"
              /\ last'.arg \notin DOMAIN config)
            => /\ last'.value # "True"
               /\ survey' = None
               /\ files' = files
               /\ written' = {}]_vars

UnknownParticipantSeen ==
    /\ last.call = "newSurvey"
    /\ last.arg \notin DOMAIN config
    /\ survey = None
    /\ DOMAIN files # {}

\* C5: a saveSurvey call made while idle returns an error value instead of
\* raising, writes no file and leaves the manager idle.
IdleSaveReported ==
    [][(survey = None /\ last'.call = "saveSurvey")
          => /\ last'.outcome = "return"
             /\ written' = {}
             /\ files' = files
             /\ survey' = None]_vars

\* C6: newSurvey returns True exactly when it took the manager from idle to
\* active, and returns False in every other case.
NewSurveyReturnsBoolean ==
    [][last'.call = "newSurvey"
          => /\ last'.outcome = "return"
             /\ (last'.value = "True") <=> (survey = None /\ survey' # None)
             /\ last'.value \in {"True", "False"}]_vars

\* C7: a newSurvey or saveSurvey call that reports failure leaves the
\* manager and every attribute of the active survey, endTime included, as
\* they were before the call.
FailedCallChangesNothing ==
    [][(last'.call \in {"newSurvey", "saveSurvey"}
           /\ last'.outcome = "return" /\ last'.value # "True")
          => /\ survey' = survey
             /\ files' = files
             /\ config' = config]_vars

\* C8: date and startTime of a survey are written once, at its creation,
\* and endTime is written once, by the save that persists the survey: an
\* active survey has an empty endTime.
TimesWrittenOnce ==
    [][survey' # None
          => /\ survey'.endTime = ""
             /\ survey # None => /\ survey'.date = survey.date
                                 /\ survey'.startTime = survey.startTime]_vars

\* C9: a file written by saveSurvey keeps its content over every later call,
\* also when a later survey has the same participant, date and startTime.
SavedFileNeverChanges ==
    [][\A n \in DOMAIN files :
          n \in DOMAIN files' /\ files'[n] = files[n]]_vars

----------------------------------------------------------------------------
(* Property of the conversions, checked under SpecRT *)

\* C10: populating an instance with fromDict(x.toDict()) raises nothing and
\* yields an instance equal to x, for every Quality, ProjectedField and
\* Survey x.
RoundTripLaw ==
    rt # NoRoundTrip => rt.result.raised = "" /\ rt.result.self = rt.x

====
